---------------------------- MODULE Spec2Model ----------------------------
(***************************************************************************)
(* The white-noise aside of chapter_1: three notebook code cells           *)
(*                                                                         *)
(*     import numpy as np / from matplotlib import pyplot as plt           *)
(*     noise = np.random.normal(size = 1000)                               *)
(*     plt.plot(np.correlate(noise, noise, mode='full'))                   *)
(*                                                                         *)
(* run against one kernel.  The kernel state is the namespace, the value   *)
(* bound to noise, numpy's global random generator, the lines of the last  *)
(* figure, the execution counter and the exception the last cell raised.  *)
(*   np.correlate is modelled by the      *)
(* sliding dot-product it performs (left ramp, full-overlap middle, right  *)
(* ramp).  Samples are integers: the algebra of the correlation is kept,   *)
(* floating-point rounding is not.                                         *)
(***************************************************************************)
EXTENDS Integers, Sequences, FiniteSets, TLC

\* ------------------------------------------------------------------ bounds
\* The notebook draws size = 1000 samples; the model draws 1..MaxLen.
MaxLen == 3
\* Samples are the integers -MaxNeg..MaxPos (stand-ins for the normal draws).
MaxNeg == 2
MaxPos == 3
\* Abstract states of numpy's global generator.
MaxRng == 2
\* A kernel session re-executes cells at most MaxExec times, on signals of
\* length 1..SessLen with samples 0..SessPos.
MaxExec == 5
SessLen == 2
SessPos == 1
\* Invalid size arguments tried for the noise cell: -MaxBad..0.
MaxBad == 1

\* The size argument of the noise cell as written in the notebook.
size == 1000

Samples == (0 - MaxNeg)..MaxPos
SessSamples == 0..SessPos
RngStates == 0..(MaxRng - 1)

Signals(maxlen, S) == UNION {[1..n -> S] : n \in 1..maxlen}

VARIABLES names, noise, rng, plotted, execution_count, last, prev, pc,
          raised, requested

vars == <<names, noise, rng, plotted, execution_count, last, prev, pc,
          raised, requested>>

\* ------------------------------------------------------- pure operators
\* complex conjugate of a real sequence: correlate conjugates its second
\* operand before the sliding products.
Conj(v) == v

Reverse(s) == [i \in 1..Len(s) |-> s[Len(s) + 1 - i]]

\* The dot kernel: sum of n products a[ia+t] * v[iv+t], t = 0..n-1, with
\* ia and iv zero-based offsets into the buffers.
RECURSIVE dot_from(_, _, _, _, _, _)
dot_from(a, ia, v, iv, n, t) ==
  IF t >= n THEN 0
  ELSE a[ia + t + 1] * v[iv + t + 1] + dot_from(a, ia, v, iv, n, t + 1)

\* Mutant of dot: the last product of the window is dropped.
dot_short(a, ia, v, iv, n) == dot_from(a, ia, v, iv, n - 1, 0)

dot(a, ia, v, iv, n) == dot_from(a, ia, v, iv, n, 0)

\* Mutant of n_left: 'full' padded like 'same'.
n_left_same(n, mode) == n \div 2

\* Number of partial-overlap outputs before the full-overlap ones, by mode
\* ('valid', 'same' or 'full').
n_left(n, mode) ==
  CASE mode = "valid" -> 0
    [] mode = "same"  -> n \div 2
    [] mode = "full"  -> n - 1

\* Mutant of n_right: 'full' padded like 'same'.
n_right_same(n, mode) == n - (n \div 2) - 1

\* Number of partial-overlap outputs after the full-overlap ones.
n_right(n, mode) ==
  CASE mode = "valid" -> 0
    [] mode = "same"  -> n - (n \div 2) - 1
    [] mode = "full"  -> n - 1

\* Mutant of correlate_length: the full-overlap outputs are counted one
\* short.
correlate_length_short(n1, n2, mode) ==
  (n1 - n2) + n_left(n2, mode) + n_right(n2, mode)

\* Length of the result for operands of length n1 >= n2.
correlate_length(n1, n2, mode) ==
  (n1 - n2 + 1) + n_left(n2, mode) + n_right(n2, mode)

\* Mutant of left_term: the window over v starts one sample early.
left_term_shifted(a, v, mode, i) ==
  LET nl == n_left(Len(v), mode)
  IN  dot(a, 0, v, nl - i - 1, Len(v) - nl + i)

\* Left ramp, output i (zero-based): the window grows from n2 - n_left.
left_term(a, v, mode, i) ==
  LET nl == n_left(Len(v), mode)
  IN  dot(a, 0, v, nl - i, Len(v) - nl + i)

\* Mutant of mid_term: the full-overlap window is one product short.
mid_term_short(a, v, i) == dot(a, i, v, 0, Len(v) - 1)

\* Full overlap, output i of the middle: a slides over all of v.
mid_term(a, v, i) == dot(a, i, v, 0, Len(v))

\* Mutant of right_term: the window starts one sample early.
right_term_early(a, v, i) ==
  dot(a, Len(a) - Len(v) + i, v, 0, Len(v) - 1 - i)

\* Right ramp, output i: the window shrinks from n2 - 1.
right_term(a, v, i) ==
  dot(a, Len(a) - Len(v) + 1 + i, v, 0, Len(v) - 1 - i)

\* The sliding products for Len(a) >= Len(v).
correlate_ordered(a, v, mode) ==
  LET n1 == Len(a)
      n2 == Len(v)
      nl == n_left(n2, mode)
      nm == n1 - n2 + 1
  IN  [j \in 1..correlate_length(n1, n2, mode) |->
         IF j - 1 < nl THEN left_term(a, v, mode, j - 1)
         ELSE IF j - 1 < nl + nm THEN mid_term(a, v, j - 1 - nl)
         ELSE right_term(a, v, j - 1 - nl - nm)]

\* The shorter operand slides over the longer one; when the operands were
\* swapped the result is reversed afterwards.
pyarray_correlate(a, v, mode) ==
  IF Len(a) < Len(v) THEN Reverse(correlate_ordered(v, a, mode))
  ELSE correlate_ordered(a, v, mode)

\* Full discrete convolution: (a * v)[j] = sum of a[m] * v[j-m].
RECURSIVE conv_from(_, _, _, _)
conv_from(a, v, j, m) ==
  IF m >= Len(a) THEN 0
  ELSE (IF j - m >= 0 /\ j - m < Len(v) THEN a[m + 1] * v[j - m + 1] ELSE 0)
       + conv_from(a, v, j, m + 1)

Conv(a, v) == [j \in 1..(Len(a) + Len(v) - 1) |-> conv_from(a, v, j - 1, 0)]

\* Q_ss(t) = s(t) * s(-t): the signal convolved with its time reversal.
Qss(s) == Conv(s, Reverse(s))

RECURSIVE SumFrom(_, _)
SumFrom(s, i) == IF i > Len(s) THEN 0 ELSE s[i] + SumFrom(s, i + 1)
Sum(s) == SumFrom(s, 1)

\* Mutant of np_correlate: a biased ACF estimate, divided by the length.
np_correlate_normalized(a, v, mode) ==
  LET c == pyarray_correlate(a, Conj(v), mode)
  IN  [j \in 1..Len(c) |-> c[j] \div Len(a)]

\* Mutant of np_correlate: the second operand is not reversed against the
\* first, which is a convolution.
np_correlate_convolve(a, v, mode) == Conv(a, v)

\* np.correlate(a, v, mode): c_k = sum_n a[n+k] * conj(v[n]).
np_correlate(a, v, mode) == pyarray_correlate(a, Conj(v), mode)

\* plt.plot(y): one Line2D, x = 0..len(y)-1.
plt_plot(y) == <<[xdata |-> [i \in 1..Len(y) |-> i - 1], ydata |-> y]>>

\* ------------------------------------------------------------ the cells
NoCall == [count |-> 0, a |-> <<>>, v |-> <<>>, rng |-> 0, out |-> <<>>]

\* A cell that reads an unbound name raises NameError: only the execution
\* counter moves.
name_error ==
  /\ execution_count' = execution_count + 1
  /\ raised' = "NameError"
  /\ UNCHANGED <<names, noise, rng, plotted, last, prev, requested>>

\* A library call that rejects its argument raises ValueError: the cell
\* binds nothing and draws nothing.
value_error ==
  /\ execution_count' = execution_count + 1
  /\ raised' = "ValueError"
  /\ UNCHANGED <<names, noise, rng, plotted, last, prev>>

\* import numpy as np; from matplotlib import pyplot as plt
import_cell ==
  /\ names' = names \cup {"np", "plt"}
  /\ execution_count' = execution_count + 1
  /\ raised' = "none"
  /\ UNCHANGED <<noise, rng, plotted, last, prev, requested>>

\* noise = np.random.normal(size = n): n draws, the generator advances.
noise_cell(S) ==
  IF "np" \in names
  THEN /\ \E s \in S, r \in RngStates :
            /\ noise' = s
            /\ rng' = r
       /\ requested' = <<Len(noise')>>
       /\ names' = names \cup {"noise"}
       /\ execution_count' = execution_count + 1
       /\ raised' = "none"
       /\ UNCHANGED <<plotted, last, prev>>
  ELSE name_error

\* The noise cell with its size argument n taken from N instead of the
\* literal: a negative size is rejected ("negative dimensions are not
\* allowed"), size 0 gives an empty array and draws nothing.
noise_cell_sized(N, S) ==
  IF "np" \in names
  THEN \E n \in N :
         /\ requested' = <<n>>
         /\ IF n < 0
            THEN value_error
            ELSE /\ \E s \in [1..n -> S], r \in RngStates :
                      /\ noise' = s
                      /\ rng' = IF n = 0 THEN rng ELSE r
                 /\ names' = names \cup {"noise"}
                 /\ execution_count' = execution_count + 1
                 /\ raised' = "none"
                 /\ UNCHANGED <<plotted, last, prev>>
  ELSE name_error

\* Mutant of plot_cell: the signal is mean-centred in place before the
\* correlation (noise -= noise.mean(), scaled to stay integral).
plot_cell_inplace ==
  IF ~({"np", "plt", "noise"} \subseteq names) THEN name_error
  ELSE IF Len(noise) = 0 THEN value_error /\ UNCHANGED requested
  ELSE /\ LET m == Sum(noise)
              z == [i \in 1..Len(noise) |-> Len(noise) * noise[i] - m]
              c == np_correlate(z, z, "full")
          IN  /\ noise' = z
              /\ plotted' = plt_plot(c)
              /\ prev' = last
              /\ last' = [count |-> execution_count + 1, a |-> z, v |-> z,
                          rng |-> rng, out |-> c]
       /\ execution_count' = execution_count + 1
       /\ raised' = "none"
       /\ UNCHANGED <<names, rng, requested>>

\* Mutant of plot_cell: the result is accumulated into the buffer of the
\* previous invocation when the lengths agree.
plot_cell_accumulate ==
  IF ~({"np", "plt", "noise"} \subseteq names) THEN name_error
  ELSE IF Len(noise) = 0 THEN value_error /\ UNCHANGED requested
  ELSE /\ LET c0 == np_correlate(noise, noise, "full")
              c == IF Len(last.out) = Len(c0)
                   THEN [j \in 1..Len(c0) |-> c0[j] + last.out[j]]
                   ELSE c0
          IN  /\ plotted' = plt_plot(c)
              /\ prev' = last
              /\ last' = [count |-> execution_count + 1, a |-> noise, v |-> noise,
                          rng |-> rng, out |-> c]
       /\ execution_count' = execution_count + 1
       /\ raised' = "none"
       /\ UNCHANGED <<names, noise, rng, requested>>

\* Mutant of plot_cell: an empty operand is not rejected, and an empty
\* result is plotted.
plot_cell_unchecked ==
  IF ~({"np", "plt", "noise"} \subseteq names) THEN name_error
  ELSE /\ LET c == np_correlate(noise, noise, "full")
          IN  /\ plotted' = plt_plot(c)
              /\ prev' = last
              /\ last' = [count |-> execution_count + 1, a |-> noise,
                          v |-> noise, rng |-> rng, out |-> c]
       /\ execution_count' = execution_count + 1
       /\ raised' = "none"
       /\ UNCHANGED <<names, noise, rng, requested>>

\* plt.plot(np.correlate(noise, noise, mode='full')); np.correlate rejects
\* an empty operand ("first array argument cannot be empty").
plot_cell ==
  IF ~({"np", "plt", "noise"} \subseteq names) THEN name_error
  ELSE IF Len(noise) = 0 THEN value_error /\ UNCHANGED requested
  ELSE /\ LET c == np_correlate(noise, noise, "full")
          IN  /\ plotted' = plt_plot(c)
              /\ prev' = last
              /\ last' = [count |-> execution_count + 1, a |-> noise, v |-> noise,
                          rng |-> rng, out |-> c]
       /\ execution_count' = execution_count + 1
       /\ raised' = "none"
       /\ UNCHANGED <<names, noise, rng, requested>>

\* ------------------------------------------------- Run All, top to bottom
Init ==
  /\ names = {}
  /\ noise = <<>>
  /\ rng \in RngStates
  /\ plotted = <<>>
  /\ execution_count = 0
  /\ last = NoCall
  /\ prev = NoCall
  /\ raised = "none"
  /\ requested = <<>>
  /\ pc = "import"

\* Run All stops at the first cell that raises.
after(cell) == IF raised' = "none" THEN cell ELSE "error"

RunImport == pc = "import" /\ import_cell /\ pc' = after("noise")

RunNoise ==
  /\ pc = "noise"
  /\ noise_cell(Signals(MaxLen, Samples))
  /\ pc' = after("plot")

\* Mutant of RunPlot: the plot cell is also run ahead of the noise cell.
RunPlotEarly == pc \in {"noise", "plot"} /\ plot_cell /\ pc' = "done"

RunPlot == pc = "plot" /\ plot_cell /\ pc' = after("done")

Next == RunImport \/ RunNoise \/ RunPlot

Spec == Init /\ [][Next]_vars

\* ------------------------- Run All with the size argument as an input
Sizes == (0 - MaxBad)..MaxLen

RunNoiseSized ==
  /\ pc = "noise"
  /\ noise_cell_sized(Sizes, Samples)
  /\ pc' = after("plot")

NextSized == RunImport \/ RunNoiseSized \/ RunPlot

SpecSized == Init /\ [][NextSized]_vars

\* ------------------------------------- a kernel session: cells re-executed
InitSession ==
  /\ names = {}
  /\ noise = <<>>
  /\ rng \in RngStates
  /\ plotted = <<>>
  /\ execution_count = 0
  /\ last = NoCall
  /\ prev = NoCall
  /\ raised = "none"
  /\ requested = <<>>
  /\ pc = "session"

ExecImport ==
  /\ pc = "session" /\ execution_count < MaxExec
  /\ import_cell /\ UNCHANGED pc

ExecNoise ==
  /\ pc = "session" /\ execution_count < MaxExec
  /\ noise_cell(Signals(SessLen, SessSamples)) /\ UNCHANGED pc

ExecPlot ==
  /\ pc = "session" /\ execution_count < MaxExec
  /\ plot_cell /\ UNCHANGED pc

NextSession == ExecImport \/ ExecNoise \/ ExecPlot

SpecSession == InitSession /\ [][NextSession]_vars

\* ------------------------------------------------------------- the claims
\* The value np.correlate returned in the plot cell, and its operand length.
acf == last.out
correlated == last.count > 0

\* Reference: the sum of s[i]*s[i+k] over the zero-based i with both i and
\* i+k valid indices of s, and the number of such i.
RECURSIVE RefSumFrom(_, _, _)
RefSumFrom(s, k, i) ==
  IF i >= Len(s) THEN 0
  ELSE (IF i + k >= 0 /\ i + k < Len(s) THEN s[i + 1] * s[i + k + 1] ELSE 0)
       + RefSumFrom(s, k, i + 1)
RefSum(s, k) == RefSumFrom(s, k, 0)
RefTerms(s, k) == Cardinality({i \in 0..(Len(s) - 1) : i + k >= 0 /\ i + k < Len(s)})

Abs(x) == IF x < 0 THEN 0 - x ELSE x

Lags(n) == (0 - (n - 1))..(n - 1)

SumSq(s) == RefSum(s, 0)

\* n^2 times the sum of squares of the mean-centred samples.
CentredSumSqScaled(s) ==
  LET m == Sum(s)
  IN  SumSq([i \in 1..Len(s) |-> Len(s) * s[i] - m])

\* C1: for every lag k in [-(n-1), n-1], element n-1+k (zero-based) of the
\* result equals the direct sum of s[i]*s[i+k] over the valid index pairs,
\* of which there are n-|k|.
C1_LagSums ==
  correlated =>
    LET n == Len(noise)
    IN  \A k \in Lags(n) :
          /\ acf[n + k] = RefSum(noise, k)
          /\ RefTerms(noise, k) = n - Abs(k)

C1_Witness ==
  /\ pc = "done" /\ correlated
  /\ Len(noise) = 3
  /\ acf[1] # 0 /\ acf[2] # acf[1] /\ acf[2] < 0

\* C2: the result has exactly 2n-1 elements for a signal of n >= 1
\* samples; for the size written in the notebook that is 1999.
C2_Length ==
  /\ correlated => Len(acf) = 2 * Len(noise) - 1
  /\ correlated => Len(noise) >= 1
  /\ correlate_length(size, size, "full") = 1999

C2_Witness == pc = "done" /\ correlated /\ Len(noise) = 3 /\ Len(acf) = 5

\* C3: the result is symmetric about the zero-lag element.
C3_Symmetric ==
  correlated =>
    LET n == Len(noise)
    IN  \A k \in Lags(n) : acf[n + k] = acf[n - k]

C3_Witness ==
  /\ pc = "done" /\ correlated
  /\ Len(noise) = 3 /\ noise # Reverse(noise)
  /\ acf[1] # acf[2] /\ acf[1] # 0

Variance0(s) == Len(s) * SumSq(s) = Sum(s) * Sum(s)

\* C4: for a signal of nonzero variance no element of the result exceeds
\* the zero-lag element in magnitude.
C4_PeakAtZeroLag ==
  (correlated /\ ~Variance0(noise)) =>
    \A j \in 1..Len(acf) : Abs(acf[j]) <= Abs(acf[Len(noise)])

C4_Witness ==
  /\ pc = "done" /\ correlated /\ ~Variance0(noise)
  /\ Len(noise) = 3
  /\ \E j \in 1..Len(acf) : acf[j] < 0 /\ 2 * Abs(acf[j]) > acf[Len(noise)]

\* C5: the zero-lag element is the raw sum of squares: not divided by n,
\* and not the sum of squares of the mean-centred samples when the mean is
\* nonzero.
C5_RawZeroLag ==
  correlated =>
    LET n == Len(noise)
    IN  /\ acf[n] = SumSq(noise)
        /\ (n > 1 /\ SumSq(noise) # 0) => n * acf[n] # SumSq(noise)
        /\ Sum(noise) # 0 => n * n * acf[n] # CentredSumSqScaled(noise)

C5_Witness ==
  /\ pc = "done" /\ correlated
  /\ Len(noise) > 1 /\ Sum(noise) # 0 /\ acf[Len(noise)] > 1

\* C6: the signal [1, 2, 3] gives [3, 8, 14, 8, 3].
C6_Example ==
  (correlated /\ noise = <<1, 2, 3>>) => acf = <<3, 8, 14, 8, 3>>

C6_Witness == pc = "done" /\ correlated /\ noise = <<1, 2, 3>>

\* C7: a signal of one sample gives the one-element result holding the
\* square of that sample.
C7_SingleSample ==
  (correlated /\ Len(noise) = 1) => acf = <<noise[1] * noise[1]>>

C7_Witness ==
  pc = "done" /\ correlated /\ Len(noise) = 1 /\ noise[1] < 0

C9_ConvolveReversed == correlated => acf = Qss(noise)

C9_Witness ==
  pc = "done" /\ correlated /\ Len(noise) = 3 /\ noise # Reverse(noise)

\* C10: once generated, the signal keeps its length and every sample: no
\* later step of the run changes it.
C10_SignalImmutable ==
  [][("noise" \in names) => (noise' = noise /\ Len(noise') = Len(noise))]_vars

C10_Witness ==
  /\ pc = "done" /\ correlated /\ plotted # <<>>
  /\ "noise" \in names /\ Len(noise) = 3 /\ Sum(noise) # 0

\* C11: the cells run in the order generate, correlate, plot, each once:
\* nothing is correlated before the signal is bound, the one correlation
\* takes the signal as both operands, and the one plotted line holds
\* exactly its result at positions 0..2n-2.
C11_State ==
  /\ pc = "import" => ("noise" \notin names /\ execution_count = 0)
  /\ pc \in {"import", "noise"} => (~correlated /\ plotted = <<>>)
  /\ pc = "plot" =>
       ("noise" \in names /\ execution_count = 2 /\ ~correlated /\ plotted = <<>>)
  /\ correlated =>
       /\ "noise" \in names /\ requested = <<Len(noise)>>
       /\ last.a = noise /\ last.v = noise
       /\ last.count = 3 /\ prev = NoCall
       /\ Len(plotted) = 1
       /\ plotted[1].ydata = acf
       /\ plotted[1].xdata = [i \in 1..(2 * Len(noise) - 1) |-> i - 1]
  /\ plotted # <<>> => correlated
  /\ pc = "done" => (correlated /\ execution_count = 3 /\ ~ENABLED Next)
  /\ pc \in {"import", "noise", "plot", "done"}

C11_Step ==
  /\ <<pc, pc'>> \in {<<"import", "noise">>, <<"noise", "plot">>, <<"plot", "done">>}
  /\ execution_count' = execution_count + 1
  /\ ("noise" \in names => noise' = noise)
  /\ (correlated => last' = last)

C11_Order == [](C11_State) /\ [][C11_Step]_vars

C11_Witness ==
  /\ pc = "done" /\ correlated /\ execution_count = 3
  /\ Len(noise) = 3 /\ last.v = noise /\ noise # Reverse(noise)
  /\ plotted[1].ydata = acf /\ plotted[1].xdata = <<0, 1, 2, 3, 4>>

C13_SumIsSquare == correlated => Sum(acf) = Sum(noise) * Sum(noise)

C13_Witness ==
  /\ pc = "done" /\ correlated /\ Len(noise) = 3
  /\ Sum(noise) # 0 /\ \E i \in 1..3 : noise[i] < 0

TypeOK ==
  /\ names \subseteq {"np", "plt", "noise"}
  /\ rng \in RngStates
  /\ execution_count \in Nat
  /\ Len(plotted) <= 1
  /\ raised \in {"none", "NameError", "ValueError"}
  /\ Len(requested) <= 1

=============================================================================
